---------------------------- MODULE Spec2Model ----------------------------
(***************************************************************************)
(* Model of IMG-ZIP-MOD.py: a Streamlit script that extracts an uploaded   *)
(* archive of images, reports the names that differ from an uploaded list, *)
(* deletes unlisted and/or wrongly sized images on request and re-packs    *)
(* what is left.                                                           *)
(*                                                                         *)
(* Streamlit re-executes main() from the top on every interaction, so one  *)
(* action of the model is one widget interaction followed by one complete  *)
(* execution of main().  A button reads True only in the execution its     *)
(* click caused, hence at most one of the three buttons is pressed in an   *)
(* execution.                                                              *)
(*                                                                         *)
(* Strings the code takes apart (folder names, file names, list lines)     *)
(* are tuples of one-character strings.                                    *)
(***************************************************************************)
EXTENDS Integers, Sequences, FiniteSets, TLC

VARIABLES
    uploaded_zip,     \* widget: None or Some(the uploaded archive, a set of files)
    uploaded_txt,     \* widget: None or Some(the uploaded list, a sequence of lines)
    tolerance,        \* widget: the slider's value
    tree,             \* disk: temp_extracted, NoDir or Some(the set of files in it)
    result_zip,       \* disk: filtered_output.zip, NoFile or Some(its set of entries)
    retain_list,      \* main's retain_list in the last execution
    not_in_list,      \* main's not_in_list
    not_in_zip,       \* main's not_in_zip
    button,           \* the button pressed in the last execution ("none": none)
    deleted,          \* main's deleted: file names, in walk order
    deleted_by_size,  \* main's deleted_by_size: records, in walk order
    warnings,         \* the st.warning calls of check_and_delete_by_size
    status,           \* "idle": main's body did not run; "ok": main ran to its
                      \* end; "error": an exception ended the execution
    hist              \* history of the last execution (not program state)

vars == << uploaded_zip, uploaded_txt, tolerance, tree, result_zip, retain_list,
           not_in_list, not_in_zip, button, deleted, deleted_by_size, warnings,
           status, hist >>

\* An optional value is a tuple: << >> when absent, << v >> when present.
None == << >>
Some(v) == << v >>
NoDir == << >>
NoFile == << >>

\* What Image.open yields for a file that is no image (it raises).
NoImage == << >>

\* ------------------------------------------------------------- bounds

\* The most files an uploaded archive holds.
MaxFiles == 3

\* ------------------------------------------------------ program constants

SliderMin == 0
SliderDefault == 1
SliderMax == 10

\* The slider values the model draws: its ends and its default.
Tolerances == {SliderMin, SliderDefault, SliderMax}

extract_path == << <<"t","e","m","p","_","e","x","t","r","a","c","t","e","d">> >>

\* ------------------------------------------------------------- inputs

D_100x200 == <<"1","0","0","x","2","0","0">>
D_misc == <<"m","i","s","c">>
D_sub == <<"s","u","b">>
PNG == <<".","p","n","g">>

\* The files archives are made of, listed in the order os.walk yields them:
\* a directory's files before its subdirectories', top-down.  dir is the
\* file's directory relative to the archive root, file its name, img the
\* size PIL reads from it (NoImage: Image.open raises).  A file is named by
\* its index in Files; an archive and a directory's content are sets of
\* indices.
Files == <<
    [dir |-> << >>,                 file |-> <<"r">> \o PNG,         img |-> <<50, 50>>],
    [dir |-> <<D_100x200>>,         file |-> <<"a">> \o PNG,         img |-> <<101, 199>>],
    [dir |-> <<D_100x200>>,         file |-> <<"c">> \o PNG,         img |-> NoImage],
    [dir |-> <<D_100x200, D_sub>>,  file |-> <<"c">> \o PNG,         img |-> <<105, 205>>],
    [dir |-> <<D_misc, D_100x200>>, file |-> <<"d",".","t">> \o PNG, img |-> <<50, 50>>]
>>

FileSet == 1..Len(Files)

Archives == {z \in SUBSET FileSet : Cardinality(z) <= MaxFiles}

\* The uploaded lists: sequences of lines as file iteration yields them.
Lists == {
    << <<" ","a"," ","\n">>, <<"\n">>, <<"b","\n">>, <<"a">> >>,
    << <<"c","\n">>, <<"d",".","t","\n">>, <<"r",".","p","n","g","\n">>, <<"d">> >>
}

\* ------------------------------------------------------ string helpers

Whitespace == {" ", "\n", "\t"}

RECURSIVE lstrip(_)
lstrip(s) == IF s # << >> /\ Head(s) \in Whitespace THEN lstrip(Tail(s)) ELSE s

RECURSIVE rstrip(_)
rstrip(s) ==
    IF s # << >> /\ s[Len(s)] \in Whitespace
    THEN rstrip(SubSeq(s, 1, Len(s) - 1))
    ELSE s

strip(s) == rstrip(lstrip(s))

lower(s) == [i \in 1..Len(s) |-> IF s[i] = "X" THEN "x" ELSE s[i]]

\* str.split(sep): the pieces of s between the occurrences of sep.
RECURSIVE split(_, _)
split(s, sep) ==
    IF \A i \in 1..Len(s) : s[i] # sep
    THEN << s >>
    ELSE LET k == CHOOSE i \in 1..Len(s) :
                      s[i] = sep /\ \A j \in 1..(i - 1) : s[j] # sep
         IN  << SubSeq(s, 1, k - 1) >> \o split(SubSeq(s, k + 1, Len(s)), sep)

Digits == {"0","1","2","3","4","5","6","7","8","9"}

DigitValue(c) ==
    CASE c = "0" -> 0 [] c = "1" -> 1 [] c = "2" -> 2 [] c = "3" -> 3
      [] c = "4" -> 4 [] c = "5" -> 5 [] c = "6" -> 6 [] c = "7" -> 7
      [] c = "8" -> 8 [] c = "9" -> 9

\* int(s) raises ValueError unless s is a numeral (the inputs hold no sign,
\* blank or underscore).
IsNumeral(s) == s # << >> /\ \A i \in 1..Len(s) : s[i] \in Digits

RECURSIVE int(_)
int(s) == IF Len(s) = 1 THEN DigitValue(s[1])
          ELSE 10 * int(SubSeq(s, 1, Len(s) - 1)) + DigitValue(s[Len(s)])

abs(n) == IF n < 0 THEN -n ELSE n

\* os.path.splitext of a file name: the extension starts at the last dot,
\* unless only dots precede it.
splitext(p) ==
    LET dots == {i \in 1..Len(p) : p[i] = "."}
    IN  IF dots = {}
        THEN << p, << >> >>
        ELSE LET dotIndex == CHOOSE i \in dots : \A j \in dots : j <= i
             IN  IF \E k \in 1..(dotIndex - 1) : p[k] # "."
                 THEN << SubSeq(p, 1, dotIndex - 1), SubSeq(p, dotIndex, Len(p)) >>
                 ELSE << p, << >> >>

\* ------------------------------------------------------ the file system

\* A file's path: the extraction root, its directories, its name.
Paths == [f \in FileSet |-> extract_path \o Files[f].dir \o << Files[f].file >>]

PathOf(f) == Paths[f]

\* os.path.join(root, file)
join(root, file) == root \o << file >>

\* os.path.relpath(path, start) for a path under start; "." for start itself.
relpath(path, start) ==
    IF path = start THEN << <<".">> >>
    ELSE SubSeq(path, Len(start) + 1, Len(path))

\* The files of directory content T, a set of files.
FilesOf(t) == IF t = NoDir THEN {} ELSE t[1]

RECURSIVE Dedup(_)
Dedup(s) ==
    IF s = << >> THEN << >>
    ELSE LET r == Dedup(SubSeq(s, 1, Len(s) - 1))
         IN  IF \E i \in 1..Len(r) : r[i] = s[Len(s)] THEN r ELSE Append(r, s[Len(s)])

\* The directories of the universe, in os.walk's top-down order.
WalkDirs == Dedup([i \in 1..Len(Files) |-> Files[i].dir])

\* os.walk over the whole universe: each directory with the files in it.
UniverseWalk ==
    [i \in 1..Len(WalkDirs) |->
        [root |-> extract_path \o WalkDirs[i],
         ids |-> SelectSeq([k \in 1..Len(Files) |-> k],
                           LAMBDA f : Files[f].dir = WalkDirs[i])]]

\* The names of the files of T among those of a directory.
Listing(ids, T) ==
    LET here == SelectSeq(ids, LAMBDA f : f \in T)
    IN  [j \in 1..Len(here) |-> Files[here[j]].file]

\* os.walk(base_dir) over the files T: one (root, files) pair per directory
\* that holds a file, a directory before its subdirectories.
walk(T) ==
    LET kept == SelectSeq(UniverseWalk, LAMBDA e : \E k \in 1..Len(e.ids) : e.ids[k] \in T)
    IN  [i \in 1..Len(kept) |-> [root |-> kept[i].root, files |-> Listing(kept[i].ids, T)]]

\* The (root, file) pairs of the nested loops "for root, _, files in
\* os.walk(..): for file in files", in the order the loops visit them.
RECURSIVE WalkItems(_)
WalkItems(w) ==
    IF w = << >> THEN << >>
    ELSE [j \in 1..Len(Head(w).files) |-> [root |-> Head(w).root, file |-> Head(w).files[j]]]
         \o WalkItems(Tail(w))

\* The file of T at a path.
FileAt(T, path) == CHOOSE f \in T : PathOf(f) = path

\* os.remove(path) raises when the environment refuses the removal: F is the
\* set of files whose removal fails in this execution.
RemoveFails(T, path, F) == FileAt(T, path) \in F

\* Mutant: the removal leaves the file in place.
os_remove_Noop(T, path) == T

\* os.remove(path), when it succeeds.
os_remove(T, path) == T \ {FileAt(T, path)}

\* Image.open(path).size: NoImage when the open raises.
ImageSize(T, path) == Files[FileAt(T, path)].img

\* ------------------------------------------------------ the functions

\* get_expected_size: None (<< >>) on ValueError, raised by the unpacking of
\* anything but two pieces and by int of a piece that is no numeral.
get_expected_size(folder_name) ==
    LET parts == split(lower(folder_name), "x")
    IN  IF Len(parts) # 2 THEN None
        ELSE IF ~IsNumeral(parts[1]) \/ ~IsNumeral(parts[2]) THEN None
        ELSE << int(parts[1]), int(parts[2]) >>

\* Mutant: the bounds compared strictly.
is_within_tolerance_Strict(actual_size, expected_size, tol) ==
    /\ abs(actual_size[1] - expected_size[1]) < tol
    /\ abs(actual_size[2] - expected_size[2]) < tol

is_within_tolerance(actual_size, expected_size, tol) ==
    /\ abs(actual_size[1] - expected_size[1]) <= tol
    /\ abs(actual_size[2] - expected_size[2]) <= tol

\* Mutant: the destination is not removed before the extraction.
extract_zip_NoClear(zip_file, dest) ==
    Some({f \in FilesOf(dest) : \A e \in zip_file : PathOf(e) # PathOf(f)}
         \cup zip_file)

\* extract_zip: rmtree of an existing destination, then extractall, which
\* writes every entry of the archive (over a file already at its path).
extract_zip(zip_file, dest) ==
    LET cleared == IF dest # NoDir THEN NoDir ELSE dest
    IN  Some({f \in FilesOf(cleared) : \A e \in zip_file : PathOf(e) # PathOf(f)}
             \cup zip_file)

\* main's parse of the list: the stripped non-empty lines.
ParseList(lines) ==
    {strip(lines[i]) : i \in {j \in 1..Len(lines) : strip(lines[j]) # << >>}}

\* Mutant: the found names keep their extensions.
list_files_not_in_txt_WithExt(T, retain) ==
    LET items == WalkItems(walk(T))
        found_names == {items[i].file : i \in 1..Len(items)}
    IN  [not_in_list |-> found_names \ retain, not_in_zip |-> retain \ found_names]

list_files_not_in_txt(T, retain) ==
    LET items == WalkItems(walk(T))
        found_names == {splitext(items[i].file)[1] : i \in 1..Len(items)}
    IN  [not_in_list |-> found_names \ retain, not_in_zip |-> retain \ found_names]

\* Mutant: the name is looked up with its extension.
Unlisted_WithExt(file, retain) == file \notin retain

\* The test of delete_unlisted_images on a file name.
Unlisted(file, retain) == splitext(file)[1] \notin retain

\* One iteration of the inner loop of delete_unlisted_images.  st.tree is the
\* directory content; seen, calls and failed record (by index) the files
\* examined, the os.remove calls made and those of them that raised; a
\* failing os.remove raises out of the function.
DeleteUnlistedStep(st, item, retain, F) ==
    LET path == join(item.root, item.file)
        id == FileAt(st.tree, path)
        st1 == [st EXCEPT !.seen = Append(@, id)]
    IN  IF Unlisted(item.file, retain)
        THEN IF RemoveFails(st.tree, path, F)
             THEN [st1 EXCEPT !.calls = Append(@, id), !.failed = @ \cup {id},
                              !.raised = TRUE]
             ELSE [st1 EXCEPT !.calls = Append(@, id),
                              !.tree = os_remove(@, path),
                              !.deleted = Append(@, item.file)]
        ELSE st1

RECURSIVE DeleteUnlistedLoop(_, _, _, _, _)
DeleteUnlistedLoop(st, items, i, retain, F) ==
    IF i > Len(items) \/ st.raised THEN st
    ELSE DeleteUnlistedLoop(DeleteUnlistedStep(st, items[i], retain, F),
                            items, i + 1, retain, F)

NewRun(T) ==
    [tree |-> T, deleted |-> << >>, warnings |-> << >>, raised |-> FALSE,
     seen |-> << >>, calls |-> << >>, failed |-> {}]

delete_unlisted_images(T, retain, F) ==
    DeleteUnlistedLoop(NewRun(T), WalkItems(walk(T)), 1, retain, F)

\* Mutant: the name of the directory itself, the file's immediate parent.
SizeFolder_Parent(root) ==
    LET rel == relpath(root, extract_path) IN rel[Len(rel)]

\* The folder name check_and_delete_by_size parses for a directory root.
SizeFolder(root) == relpath(root, extract_path)[1]

\* The test that decides a removal in check_and_delete_by_size; the tuple
\* expected_size is true when it is not None.
SizeMismatch(actual_size, expected_size, tol) ==
    expected_size # None /\ ~is_within_tolerance(actual_size, expected_size, tol)

\* What the except clause of check_and_delete_by_size does with an exception
\* raised by os.remove: a warning, and the loop goes on.
RemoveRaised(st, path) ==
    [st EXCEPT !.calls = Append(@, FileAt(st.tree, path)),
               !.failed = @ \cup {FileAt(st.tree, path)},
               !.warnings = Append(@, path)]

\* Mutant: the exception is not caught and ends the walk.
DecodeRaised_Abort(st, path) == [st EXCEPT !.raised = TRUE]

\* What the except clause does with an exception raised by Image.open: a
\* warning that names the path, and the loop goes on.
DecodeRaised(st, path) == [st EXCEPT !.warnings = Append(@, path)]

\* One iteration of the inner loop of check_and_delete_by_size.
CheckSizeStep(st, item, tol, F) ==
    LET path == join(item.root, item.file)
        expected_size == get_expected_size(SizeFolder(item.root))
        actual_size == ImageSize(st.tree, path)
        id == FileAt(st.tree, path)
        st1 == [st EXCEPT !.seen = Append(@, id)]
    IN  IF actual_size = NoImage
        THEN DecodeRaised(st1, path)
        ELSE IF SizeMismatch(actual_size, expected_size, tol)
        THEN IF RemoveFails(st.tree, path, F)
             THEN RemoveRaised(st1, path)
             ELSE [st1 EXCEPT !.calls = Append(@, id),
                              !.tree = os_remove(@, path),
                              !.deleted = Append(@, << item.file, expected_size, actual_size >>)]
        ELSE st1

RECURSIVE CheckSizeLoop(_, _, _, _, _)
CheckSizeLoop(st, items, i, tol, F) ==
    IF i > Len(items) \/ st.raised THEN st
    ELSE CheckSizeLoop(CheckSizeStep(st, items[i], tol, F), items, i + 1, tol, F)

check_and_delete_by_size(T, tol, F) ==
    CheckSizeLoop(NewRun(T), WalkItems(walk(T)), 1, tol, F)

\* Mutant: entries named by the bare file name, the folders dropped.
create_zip_from_folder_Flat(T) ==
    LET items == WalkItems(walk(T))
    IN  Some({[arcname |-> << items[i].file >>,
               data |-> FileAt(T, join(items[i].root, items[i].file))]
              : i \in 1..Len(items)})

\* create_zip_from_folder: one entry per file of the walk, named by its path
\* relative to the folder.
create_zip_from_folder(T) ==
    LET items == WalkItems(walk(T))
    IN  Some({[arcname |-> relpath(join(items[i].root, items[i].file), extract_path),
               data |-> FileAt(T, join(items[i].root, items[i].file))]
              : i \in 1..Len(items)})

\* ------------------------------------------------------ main

Buttons == {"unlisted", "size", "all"}

\* The sets of files whose os.remove the environment may refuse in one
\* execution, among the files of archive z: any of them.
Failures(z) == SUBSET z

\* A function that was not called in the execution.
NotCalled(T) == NewRun(T)

\* The history of an execution: ran, whether main's body ran; extracted, the
\* directory content right after extract_zip; stale, whether the directory
\* held a file before the execution that the archive does not; restored,
\* whether the directory existed and lacked a file of the archive; unlisted
\* and size, the calls of the two deletion functions; repeat, when the
\* execution repeats the click of the one before it, what that one left.
\* The history main leaves when its body does not run:
NoHist ==
    [ran |-> FALSE, extracted |-> {}, stale |-> FALSE, restored |-> FALSE,
     unlisted |-> NotCalled({}), size |-> NotCalled({}), repeat |-> None]

\* Mutant: Clean All checks the sizes first and the list second.
RunButtons_SizeFirst(btn, T0, retain, tol, F) ==
    LET v == IF btn \in {"size", "all"}
             THEN check_and_delete_by_size(T0, tol, F)
             ELSE NotCalled(T0)
        u == IF btn \in {"unlisted", "all"}
             THEN delete_unlisted_images(v.tree, retain, F)
             ELSE NotCalled(v.tree)
    IN  [unlisted |-> u, size |-> v, tree |-> u.tree]

\* The three "if st.button(..)" blocks of main for the button btn: the calls
\* of the two deletion functions on the directory content T0.  Clean All
\* calls delete_unlisted_images and then check_and_delete_by_size on what is
\* left; an exception out of the first ends the execution.  tree is the
\* directory content the calls leave.
RunButtons(btn, T0, retain, tol, F) ==
    LET u == IF btn \in {"unlisted", "all"}
             THEN delete_unlisted_images(T0, retain, F)
             ELSE NotCalled(T0)
        v == IF btn \in {"size", "all"} /\ ~u.raised
             THEN check_and_delete_by_size(u.tree, tol, F)
             ELSE NotCalled(u.tree)
    IN  [unlisted |-> u, size |-> v, tree |-> v.tree]

\* One execution of main() with the widgets at zw, tw, tol, the button btn
\* pressed ("none": none) and the removals of F failing.
main(zw, tw, tol, btn, F) ==
    /\ uploaded_zip' = zw
    /\ uploaded_txt' = tw
    /\ tolerance' = tol
    /\ button' = btn
    /\ IF zw = None \/ tw = None
       THEN \* line 99: nothing runs, the disk stays as it is
            /\ status' = "idle"
            /\ retain_list' = {}
            /\ not_in_list' = {}
            /\ not_in_zip' = {}
            /\ deleted' = << >>
            /\ deleted_by_size' = << >>
            /\ warnings' = << >>
            /\ hist' = NoHist
            /\ UNCHANGED << tree, result_zip >>
       ELSE \E retain \in {ParseList(tw[1])},
               T0 \in {FilesOf(extract_zip(zw[1], tree))} :
            \E report \in {list_files_not_in_txt(T0, retain)},
               r \in {RunButtons(btn, T0, retain, tol, F)} :
            \E u \in {r.unlisted}, v \in {r.size} :
                /\ retain_list' = retain
                /\ not_in_list' = report.not_in_list
                /\ not_in_zip' = report.not_in_zip
                /\ tree' = Some(r.tree)
                /\ deleted' = IF u.raised THEN << >> ELSE u.deleted
                /\ deleted_by_size' = v.deleted
                /\ warnings' = v.warnings
                /\ IF u.raised
                   THEN \* the exception ends the execution before line 148
                        /\ status' = "error"
                        /\ UNCHANGED result_zip
                   ELSE /\ status' = "ok"
                        /\ result_zip' = create_zip_from_folder(r.tree)
                /\ hist' = [ran |-> TRUE,
                            extracted |-> T0,
                            stale |-> FilesOf(tree) \ zw[1] # {},
                            restored |-> tree # NoDir /\ zw[1] \ FilesOf(tree) # {},
                            unlisted |-> u,
                            size |-> v,
                            repeat |->
                                IF btn # "none" /\ button = btn /\ status # "idle"
                                THEN Some([ndel |-> Len(deleted) + Len(deleted_by_size),
                                           refused |-> hist.unlisted.failed
                                                       \cup hist.size.failed,
                                           tree |-> FilesOf(tree)])
                                ELSE None]

\* ------------------------------------------------------ the interactions

Init ==
    /\ uploaded_zip = None
    /\ uploaded_txt = None
    /\ tolerance = SliderDefault
    /\ tree = NoDir
    /\ result_zip = NoFile
    /\ retain_list = {}
    /\ not_in_list = {}
    /\ not_in_zip = {}
    /\ button = "none"
    /\ deleted = << >>
    /\ deleted_by_size = << >>
    /\ warnings = << >>
    /\ status = "idle"
    /\ hist = NoHist

\* The user uploads an archive.
UploadZip ==
    \E z \in Archives : main(Some(z), uploaded_txt, tolerance, "none", {})

\* The user uploads a list.
UploadTxt ==
    \E l \in Lists : main(uploaded_zip, Some(l), tolerance, "none", {})

\* The user moves the slider.
SetTolerance ==
    \E t \in Tolerances \ {tolerance} :
        main(uploaded_zip, uploaded_txt, t, "none", {})

\* The buttons exist once both uploads are present (line 99).
ButtonsShown == uploaded_zip # None /\ uploaded_txt # None

ClickDeleteUnlisted ==
    /\ ButtonsShown
    /\ \E F \in Failures(uploaded_zip[1]) :
           main(uploaded_zip, uploaded_txt, tolerance, "unlisted", F)

ClickDeleteBySize ==
    /\ ButtonsShown
    /\ \E F \in Failures(uploaded_zip[1]) :
           main(uploaded_zip, uploaded_txt, tolerance, "size", F)

ClickCleanAll ==
    /\ ButtonsShown
    /\ \E F \in Failures(uploaded_zip[1]) :
           main(uploaded_zip, uploaded_txt, tolerance, "all", F)

Next ==
    \/ UploadZip
    \/ UploadTxt
    \/ SetTolerance
    \/ ClickDeleteUnlisted
    \/ ClickDeleteBySize
    \/ ClickCleanAll

Spec == Init /\ [][Next]_vars

\* ------------------------------------------------------ the claims

\* A file's name without its extension, its path relative to the root, the
\* first component of its directory relative to the root ("." for the root).
Stem(f) == splitext(Files[f].file)[1]
RelPath(f) == Files[f].dir \o << Files[f].file >>
TopFolder(f) == IF Files[f].dir = << >> THEN <<".">> ELSE Files[f].dir[1]

Range(s) == {s[i] : i \in 1..Len(s)}
InWalkOrder(S) == SelectSeq([k \in 1..Len(Files) |-> k], LAMBDA f : f \in S)
Names(ids) == [i \in 1..Len(ids) |-> Files[ids[i]].file]

Decodes(f) == Files[f].img # NoImage
OutOfTolerance(f, e, t) ==
    abs(Files[f].img[1] - e[1]) > t \/ abs(Files[f].img[2] - e[2]) > t

\* The files of the universe, by their paths.
FileNamed(rel) == CHOOSE f \in FileSet : RelPath(f) = rel
F_root == FileNamed(<< <<"r">> \o PNG >>)
F_a == FileNamed(<< D_100x200, <<"a">> \o PNG >>)
F_corrupt == FileNamed(<< D_100x200, <<"c">> \o PNG >>)
F_nested == FileNamed(<< D_100x200, D_sub, <<"c">> \o PNG >>)
F_misc == FileNamed(<< D_misc, D_100x200, <<"d",".","t">> \o PNG >>)

S_a == <<"a">>
S_b == <<"b">>
S_c == <<"c">>

\* delete_unlisted_images was called in the last execution; it returned.
UnlistedCalled == hist.ran /\ button \in {"unlisted", "all"}
UnlistedReturned == UnlistedCalled /\ ~hist.unlisted.raised

\* check_and_delete_by_size was called in the last execution (it always
\* returns).
SizeCalled == hist.ran /\ button \in {"size", "all"} /\ ~hist.unlisted.raised

\* The removals the environment refused in the last execution.
Refused == hist.unlisted.failed \cup hist.size.failed

\* C1: when delete_unlisted_images returns, the files it removed are exactly
\* those whose name without extension is not in the retain set, every other
\* file is in place, and the list it returns is the removed files' names, one
\* per removed file; with R = {a, b} and a tree of a.png and c.png it removes
\* c.png alone.
C1_DeleteUnlisted ==
    UnlistedReturned =>
        LET before == hist.extracted
            after == hist.unlisted.tree
        IN  /\ after = {f \in before : Stem(f) \in retain_list}
            /\ deleted = Names(InWalkOrder(before \ after))
            /\ Len(deleted) = Cardinality({f \in before : Stem(f) \notin retain_list})
            /\ (retain_list = {S_a, S_b} /\ before = {F_a, F_corrupt}) =>
                   (after = {F_a} /\ deleted = << <<"c">> \o PNG >>)

C1_Witness ==
    /\ button = "unlisted"
    /\ status = "ok"
    /\ retain_list = {S_a, S_b}
    /\ hist.extracted = {F_a, F_corrupt}
    /\ tree = Some({F_a})
    /\ deleted = << <<"c">> \o PNG >>

\* C2: check_and_delete_by_size calls os.remove on a file if and only if the
\* folder name it parses for the file is <W>x<H>, the file decodes and its
\* width or height is more than the tolerance away from W or H; the files it
\* removes are those calls the environment did not refuse and every other
\* file stays; it appends one record per removed file.  The (101,199) file of
\* folder 100x200 is kept at tolerance 1 and removed at tolerance 0, and the
\* file under misc is never removed.
C2_SizeDeletion ==
    SizeCalled =>
        LET before == hist.unlisted.tree
            after == hist.size.tree
            calls == Range(hist.size.calls)
            expected(f) == get_expected_size(SizeFolder(extract_path \o Files[f].dir))
            removed == InWalkOrder(before \ after)
        IN  /\ \A f \in before :
                   f \in calls <=> /\ expected(f) # None
                                   /\ Decodes(f)
                                   /\ OutOfTolerance(f, expected(f), tolerance)
            /\ after = before \ (calls \ hist.size.failed)
            /\ deleted_by_size =
                   [i \in 1..Len(removed) |->
                       << Files[removed[i]].file, expected(removed[i]),
                          Files[removed[i]].img >>]
            /\ F_a \in before => (F_a \in calls <=> tolerance < SliderDefault)
            /\ F_misc \in before => F_misc \in after

C2_Witness ==
    /\ button = "size"
    /\ tolerance = SliderMin
    /\ hist.extracted = {F_a, F_misc}
    /\ tree = Some({F_misc})
    /\ Len(deleted_by_size) = 1

\* C3: list_files_not_in_txt returns extra = found \ R and missing = R \ found
\* for found the names without extension of the files of the tree, so that
\* extra and found /\ R partition found and missing and found /\ R partition
\* R; the tree is the same after the report as before it, and so is R.
C3_Reconcile ==
    hist.ran =>
        LET found == {Stem(f) : f \in hist.extracted}
            R == retain_list
        IN  /\ not_in_list = found \ R
            /\ not_in_zip = R \ found
            /\ not_in_list \cup (found \cap R) = found
            /\ not_in_list \cap R = {}
            /\ not_in_zip \cup (found \cap R) = R
            /\ not_in_zip \cap found = {}
            /\ button = "none" => tree = Some(hist.extracted)
            /\ R = ParseList(uploaded_txt[1])

C3_Witness ==
    /\ hist.ran
    /\ button = "none"
    /\ retain_list = {S_a, S_b}
    /\ not_in_list = {S_c}
    /\ not_in_zip = {S_b}

\* C4: Clean All runs the unlisted deletion over the whole tree and then the
\* size deletion over the files that survived it: a file that is unlisted is
\* removed by the first and never examined by the second, whatever its size,
\* the size records are those of the second pass alone, and when Clean All is
\* done every file left has its name in the retain set and is exempt from the
\* size check, undecodable or within tolerance (or is one whose removal the
\* environment refused).
C4_CleanAll ==
    (hist.ran /\ button = "all" /\ status = "ok") =>
        LET U == hist.unlisted
            S == hist.size
            exempt(f) == get_expected_size(TopFolder(f)) = None
        IN  /\ Range(U.seen) = hist.extracted
            /\ Range(S.seen) = U.tree
            /\ \A f \in hist.extracted :
                   Stem(f) \notin retain_list =>
                       /\ f \in Range(U.calls)
                       /\ f \notin Range(S.seen)
                       /\ f \notin FilesOf(tree)
            /\ Len(deleted) = Cardinality(hist.extracted \ U.tree)
            /\ Len(deleted_by_size) = Cardinality(U.tree \ S.tree)
            /\ tree = Some(S.tree)
            /\ \A f \in FilesOf(tree) :
                   /\ Stem(f) \in retain_list
                   /\ \/ exempt(f)
                      \/ ~Decodes(f)
                      \/ ~OutOfTolerance(f, get_expected_size(TopFolder(f)), tolerance)
                      \/ f \in S.failed

C4_Witness ==
    /\ button = "all"
    /\ status = "ok"
    /\ hist.extracted = {F_a, F_nested}
    /\ retain_list = {S_a, S_b}
    /\ tolerance = SliderMin
    /\ deleted = << <<"c">> \o PNG >>
    /\ Len(deleted_by_size) = 1
    /\ tree = Some({})

\* C5: the archive an execution builds holds exactly the files in the tree at
\* the end of the execution, each under its path relative to the root, so no
\* file the execution deleted is in it and no file left is missing from it;
\* built with no deletion, it has the relative paths of the uploaded archive.
C5_ArchiveReflectsTree ==
    status = "ok" =>
        /\ result_zip = Some({[arcname |-> RelPath(f), data |-> f] : f \in FilesOf(tree)})
        /\ \A f \in hist.extracted \ FilesOf(tree) :
               \A e \in result_zip[1] : e.arcname # RelPath(f)
        /\ button = "none" =>
               {e.arcname : e \in result_zip[1]} = {RelPath(f) : f \in uploaded_zip[1]}

C5_Witness ==
    /\ status = "ok"
    /\ button = "size"
    /\ hist.extracted = {F_nested, F_misc}
    /\ result_zip = Some({[arcname |-> << D_misc, D_100x200, <<"d",".","t">> \o PNG >>,
                           data |-> F_misc]})

C7_RemoveFailureAborts ==
    \A call \in {hist.unlisted, hist.size} :
        call.failed # {} =>
            /\ call.seen[Len(call.seen)] \in call.failed
            /\ call.raised
            /\ status = "error"

\* C8: check_and_delete_by_size never removes a file that does not decode,
\* warns with the file's path, and goes on: it examines every file of the
\* tree, and its records and the other files it leaves are those of the same
\* call on the tree without the undecodable files.
C8_DecodeFailureSkipped ==
    SizeCalled =>
        LET before == hist.unlisted.tree
            S == hist.size
            bad == {f \in before : ~Decodes(f)}
            without == check_and_delete_by_size(before \ bad, tolerance, S.failed)
        IN  /\ bad \subseteq S.tree
            /\ bad \cap Range(S.calls) = {}
            /\ \A f \in bad : extract_path \o RelPath(f) \in Range(warnings)
            /\ Range(S.seen) = before
            /\ deleted_by_size = without.deleted
            /\ S.tree \ bad = without.tree

C8_Witness ==
    /\ button = "size"
    /\ hist.extracted = {F_corrupt, F_nested}
    /\ tree = Some({F_corrupt})
    /\ Len(warnings) = 1
    /\ Len(deleted_by_size) = 1

\* C9: whenever both uploads are present main's body runs, and the tree
\* extract_zip leaves holds exactly the entries of the uploaded archive,
\* whatever the directory held before; the report and the deletions of the
\* execution work on that tree.
C9_FreshExtraction ==
    /\ (uploaded_zip # None /\ uploaded_txt # None) <=> hist.ran
    /\ hist.ran =>
           /\ hist.extracted = uploaded_zip[1]
           /\ FilesOf(tree) \subseteq hist.extracted
           /\ Range(hist.unlisted.seen) \cup Range(hist.size.seen) \subseteq hist.extracted
           /\ not_in_list = {Stem(f) : f \in uploaded_zip[1]} \ retain_list

C9_Witness ==
    /\ hist.ran
    /\ hist.stale
    /\ hist.restored
    /\ hist.extracted = uploaded_zip[1]

\* C10: the size a file is checked against is parsed from the first component
\* of its directory relative to the root: the file of 100x200/sub is checked
\* against (100,200) (and removed unless the tolerance covers its 5 pixels),
\* the file of misc/100x200 and the file of the root are exempt and never
\* removed.
C10_TopLevelFolder ==
    SizeCalled =>
        LET calls == Range(hist.size.calls)
            removed == InWalkOrder(hist.unlisted.tree \ hist.size.tree)
        IN  /\ \A f \in hist.unlisted.tree :
                   LET e == get_expected_size(TopFolder(f))
                   IN  f \in calls <=>
                           (e # None /\ Decodes(f) /\ OutOfTolerance(f, e, tolerance))
            /\ \A i \in 1..Len(removed) :
                   deleted_by_size[i][2] = get_expected_size(TopFolder(removed[i]))
            /\ get_expected_size(TopFolder(F_nested)) = << 100, 200 >>
            /\ F_nested \in hist.unlisted.tree =>
                   (F_nested \in calls <=> tolerance < SliderMax)
            /\ {F_misc, F_root} \cap calls = {}

C10_Witness ==
    /\ button = "size"
    /\ hist.extracted = {F_nested, F_misc}
    /\ tree = Some({F_misc})
    /\ deleted_by_size = << << <<"c">> \o PNG, << 100, 200 >>, << 105, 205 >> >> >>

=============================================================================
